---- MODULE Spec2Model ----
(***************************************************************************)
(* Model of direct_ring_buffer (src/src/lib.rs): a single-producer,        *)
(* single-consumer ring buffer whose only shared synchronisation variable  *)
(* is the atomic counter `used`.  Each handle (Producer, Consumer) keeps a *)
(* private cursor `index`.  Every access to shared memory (a load of       *)
(* `used`, a body invocation touching the slots of one run, a fetch_add /  *)
(* fetch_sub on `used`) is one step, so that the two handles interleave    *)
(* between them.                                                           *)
(***************************************************************************)
EXTENDS Integers, Naturals, Sequences, FiniteSets, TLC

\* ------------------------------------------------------------------ bounds
\* Largest `size` given to create_ring_buffer.
MaxSize == 3
\* A write call starts only while fewer than MaxWrites values were produced.
MaxWrites == 3
\* Largest k of a max_size = Some(k) argument.
MaxRequest == 4
\* By how much a misbehaving body may overstate the count it processed.
MaxOver == 2
\* Width of usize in the model (the counter wraps modulo 2^UsizeBits).
UsizeBits == 8

VARIABLES
    elements,   \* DirectRingBuffer.elements: slot -> value
    used,       \* DirectRingBuffer.used (AtomicUsize)
    producer,   \* Producer handle: index and the locals of its running call
    consumer,   \* Consumer handle: index and the locals of its running call
    written,    \* history: the values the producer's bodies / write_element stored, in order
    readseq,    \* history: the values delivered to the consumer, in order
    published   \* history: number of written values covered by a completed fetch_add

vars == <<elements, used, producer, consumer, written, readseq, published>>

\* ------------------------------------------------------------- primitives
\* vec.set_len(size) without initialisation: the content of a fresh slot.
Uninit == -1

USIZE == 2 ^ UsizeBits

\* Option<usize>
None == <<>>
Some(x) == <<x>>
unwrap_or(o, d) == IF o = None THEN d ELSE o[1]

min(a, b) == IF a <= b THEN a ELSE b

\* elements.len()
elements_len == Cardinality(DOMAIN elements)

\* AtomicUsize::fetch_add / fetch_sub: the value stored (wrapping arithmetic).
fetch_add(a, n) == (a + n) % USIZE
\* Variant: the read path adds instead of subtracting.
fetch_sub_adds(a, n) == (a + n) % USIZE
fetch_sub(a, n) == (a - n) % USIZE

\* Variant: the read side computes the free space instead of the used count.
available_read_free == (elements_len - used) % USIZE
\* self.used.load(Acquire)
available_read == used

\* Variant: one slot is always kept open.
available_write_one_open ==
    IF used + 1 >= elements_len THEN 0 ELSE elements_len - used - 1

\* self.elements().len() - self.used.load(Acquire), in usize arithmetic
available_write == (elements_len - used) % USIZE

\* Variant: the cursor wraps one slot early.
wraparound_index_early(index, advance) ==
    IF index + advance >= elements_len - 1 THEN 0 ELSE index + advance

\* *index = if *index + advance >= len { 0 } else { *index + advance }
wraparound_index(index, advance) ==
    IF index + advance >= elements_len THEN 0 ELSE index + advance

\* A handle between calls: nothing is in progress.
\* Besides the fields of the source (index) and the locals of process_slices,
\* a handle records: calls (body invocations of the running call), start_index
\* (the cursor when the running call began), pub_at_load (`published` when the
\* running consumer call loaded used), last / ret (kind and value of the last
\* return), over (a body of this handle has returned more than it was offered).
NewHandle ==
    [ index |-> 0, pc |-> "idle", req |-> None,
      available |-> 0, max_size |-> 0, total_processed |-> 0,
      part_start |-> 0, part_len |-> 0, processed |-> 0, value |-> Uninit,
      calls |-> 0, start_index |-> 0, pub_at_load |-> 0,
      last |-> "none", ret |-> 0, over |-> FALSE ]

\* Variant: the requested max_size is not limited by `available`.
ProcessSlicesEnterNoClamp(h, available, max_size) ==
    [ h EXCEPT !.pc = "loop", !.req = max_size,
               !.available = available,
               !.max_size = unwrap_or(max_size, available),
               !.total_processed = 0, !.calls = 0, !.start_index = h.index,
               !.part_start = 0, !.part_len = 0, !.processed = 0 ]

\* process_slices, entry: the locals set before the loop.
ProcessSlicesEnter(h, available, max_size) ==
    [ h EXCEPT !.pc = "loop", !.req = max_size,
               !.available = available,
               !.max_size = min(unwrap_or(max_size, available), available),
               !.total_processed = 0, !.calls = 0, !.start_index = h.index,
               !.part_start = 0, !.part_len = 0, !.processed = 0 ]

\* Variant: the run always extends to the physical end of the storage.
ProcessSlicesLoopToEnd(h) ==
    IF h.total_processed < h.max_size
    THEN [ h EXCEPT !.pc = "body",
                    !.part_start = h.index,
                    !.part_len = elements_len - h.index ]
    ELSE [ h EXCEPT !.pc = "update" ]

\* Variant: the loop condition is total_processed <= max_size.
ProcessSlicesLoopInclusive(h) ==
    IF h.total_processed <= h.max_size
    THEN [ h EXCEPT !.pc = "body",
                    !.part_start = h.index,
                    !.part_len = min(elements_len - h.index,
                                     h.max_size - h.total_processed) ]
    ELSE [ h EXCEPT !.pc = "update" ]

\* Variant: the run is not cut at the physical end of the storage.
ProcessSlicesLoopNoSplit(h) ==
    IF h.total_processed < h.max_size
    THEN [ h EXCEPT !.pc = "body",
                    !.part_start = h.index,
                    !.part_len = h.max_size - h.total_processed ]
    ELSE [ h EXCEPT !.pc = "update" ]

\* process_slices, loop head: either offer the next run to the body or leave.
ProcessSlicesLoop(h) ==
    IF h.total_processed < h.max_size
    THEN [ h EXCEPT !.pc = "body",
                    !.part_start = h.index,
                    !.part_len = min(elements_len - h.index,
                                     h.max_size - h.total_processed) ]
    ELSE [ h EXCEPT !.pc = "update" ]

\* Variant: the cursor advances by the offered length, not the processed count.
ProcessSlicesAfterBodyFullAdvance(h, processed) ==
    [ h EXCEPT !.processed = processed,
               !.total_processed = h.total_processed + processed,
               !.index = wraparound_index(h.index, h.part_len),
               !.calls = h.calls + 1,
               !.pc = IF processed < h.part_len THEN "update" ELSE "loop" ]

\* Variant: a short return does not leave the loop.
ProcessSlicesAfterBodyNoBreak(h, processed) ==
    [ h EXCEPT !.processed = processed,
               !.total_processed = h.total_processed + processed,
               !.index = wraparound_index(h.index, processed),
               !.calls = h.calls + 1,
               !.pc = "loop" ]

\* Variant: a hardened implementation that clamps the body's return value.
ProcessSlicesAfterBodyClamped(h, processed) ==
    [ h EXCEPT !.processed = min(processed, h.part_len),
               !.total_processed = h.total_processed + min(processed, h.part_len),
               !.index = wraparound_index(h.index, min(processed, h.part_len)),
               !.calls = h.calls + 1,
               !.pc = IF processed < h.part_len THEN "update" ELSE "loop" ]

\* process_slices, after f returned `processed`.
ProcessSlicesAfterBody(h, processed) ==
    [ h EXCEPT !.processed = processed,
               !.total_processed = h.total_processed + processed,
               !.index = wraparound_index(h.index, processed),
               !.calls = h.calls + 1,
               !.pc = IF processed < h.part_len THEN "update" ELSE "loop" ]

\* Variant: the call returns the count of its last run, not the total.
ProcessSlicesReturnLast(h) ==
    [ h EXCEPT !.pc = "idle", !.req = None, !.last = "slices",
               !.ret = h.processed,
               !.available = 0, !.max_size = 0, !.total_processed = 0,
               !.part_start = 0, !.part_len = 0, !.processed = 0, !.calls = 0,
               !.start_index = 0, !.pub_at_load = 0 ]

\* process_slices, return: the locals go out of scope.
ProcessSlicesReturn(h) ==
    [ h EXCEPT !.pc = "idle", !.req = None, !.last = "slices",
               !.ret = h.total_processed,
               !.available = 0, !.max_size = 0, !.total_processed = 0,
               !.part_start = 0, !.part_len = 0, !.processed = 0, !.calls = 0,
               !.start_index = 0, !.pub_at_load = 0 ]

\* The max_size arguments tried.
MaxSizeArgs == {None} \cup { Some(k) : k \in 0..MaxRequest }

\* --------------------------------------------------------------------- Init
\* Variant: the counter starts at the capacity instead of 0.
InitUsedFull ==
    /\ \E size \in 0..MaxSize : elements = [ i \in 0..(size - 1) |-> Uninit ]
    /\ used = elements_len
    /\ producer = NewHandle
    /\ consumer = NewHandle
    /\ written = <<>>
    /\ readseq = <<>>
    /\ published = 0

\* State after create_ring_buffer(size).
Init ==
    /\ \E size \in 0..MaxSize : elements = [ i \in 0..(size - 1) |-> Uninit ]
    /\ used = 0
    /\ producer = NewHandle
    /\ consumer = NewHandle
    /\ written = <<>>
    /\ readseq = <<>>
    /\ published = 0

\* ------------------------------------------------------------ caller bodies
\* The value the producer's caller stores next (a running counter, as in
\* tests.rs test_concurrent_slices_read_write).
NextValue == Len(written) + 1

\* What a write body leaves in a slot of its slice that it does not count as
\* written.
Junk == -2

\* A write body storing n consecutive counter values from slot start on; with
\* scribble it also overwrites the rest of the len slots it was offered, which
\* it does not report as written.
WriteRun(els, start, len, n, first, scribble) ==
    [ i \in DOMAIN els |->
        IF start <= i /\ i < start + n THEN first + (i - start)
        ELSE IF scribble /\ start + n <= i /\ i < start + len THEN Junk
        ELSE els[i] ]

\* A read body taking the n leading elements of the slice at start.
ReadRun(els, start, n) == [ j \in 1..n |-> els[start + (j - 1)] ]

\* The counts a body may return for the slice it was offered.
BodyReturns(h) == 0..h.part_len

\* ----------------------------------------------------------------- Producer
\* Producer::available
ProducerAvailable ==
    /\ producer.pc = "idle"
    /\ producer' = [ producer EXCEPT !.last = "available", !.ret = available_write ]
    /\ UNCHANGED <<elements, used, consumer, written, readseq, published>>

\* Producer::write_slices, up to the loop: load used, enter process_slices.
WriteSlices(max_size) ==
    /\ producer.pc = "idle"
    /\ Len(written) < MaxWrites
    /\ producer' = ProcessSlicesEnter(producer, available_write, max_size)
    /\ UNCHANGED <<elements, used, consumer, written, readseq, published>>

WriteSlicesLoop ==
    /\ producer.pc = "loop"
    /\ producer' = ProcessSlicesLoop(producer)
    /\ UNCHANGED <<elements, used, consumer, written, readseq, published>>

\* Variant: each run is published as soon as its body returns.
WriteSlicesBodyPublishing(done, scribble) ==
    /\ producer.pc = "body"
    /\ done \in BodyReturns(producer)
    /\ elements' = WriteRun(elements, producer.part_start, producer.part_len,
                            done, NextValue, scribble)
    /\ written' = written \o [ j \in 1..done |-> NextValue + (j - 1) ]
    /\ producer' = ProcessSlicesAfterBody(producer, done)
    /\ used' = fetch_add(used, done)
    /\ published' = published + done
    /\ UNCHANGED <<consumer, readseq>>

\* One invocation of the caller's write body on the offered run.
WriteSlicesBody(done, scribble) ==
    /\ producer.pc = "body"
    /\ done \in BodyReturns(producer)
    /\ elements' = WriteRun(elements, producer.part_start, producer.part_len,
                            done, NextValue, scribble)
    /\ written' = written \o [ j \in 1..done |-> NextValue + (j - 1) ]
    /\ producer' = ProcessSlicesAfterBody(producer, done)
    /\ UNCHANGED <<used, consumer, readseq, published>>

\* update_used: atomic.fetch_add(processed, Release); then return.
WriteSlicesUpdate ==
    /\ producer.pc = "update"
    /\ used' = fetch_add(used, producer.total_processed)
    /\ published' = published + producer.total_processed
    /\ producer' = ProcessSlicesReturn(producer)
    /\ UNCHANGED <<elements, consumer, written, readseq>>

\* write_element: the availability check.
WriteElementCheck ==
    /\ producer.pc = "idle"
    /\ Len(written) < MaxWrites
    /\ producer' =
         IF available_write = 0
         THEN [ producer EXCEPT !.last = "element", !.ret = FALSE ]
         ELSE [ producer EXCEPT !.pc = "elem_access", !.value = NextValue ]
    /\ UNCHANGED <<elements, used, consumer, written, readseq, published>>

\* write_element: store the value and advance the cursor.
WriteElementStore ==
    /\ producer.pc = "elem_access"
    /\ elements' = [ elements EXCEPT ![producer.index] = producer.value ]
    /\ written' = Append(written, producer.value)
    /\ producer' = [ producer EXCEPT !.pc = "elem_update",
                                     !.index = wraparound_index(producer.index, 1) ]
    /\ UNCHANGED <<used, consumer, readseq, published>>

\* write_element: used.fetch_add(1, Release); return true.
WriteElementAdd ==
    /\ producer.pc = "elem_update"
    /\ used' = fetch_add(used, 1)
    /\ published' = published + 1
    /\ producer' = [ producer EXCEPT !.pc = "idle", !.last = "element",
                                     !.ret = TRUE, !.value = Uninit ]
    /\ UNCHANGED <<elements, consumer, written, readseq>>

\* ----------------------------------------------------------------- Consumer
\* Consumer::available
ConsumerAvailable ==
    /\ consumer.pc = "idle"
    /\ consumer' = [ consumer EXCEPT !.last = "available", !.ret = available_read ]
    /\ UNCHANGED <<elements, used, producer, written, readseq, published>>

\* Consumer::read_slices, up to the loop: load used, enter process_slices.
ReadSlices(max_size) ==
    /\ consumer.pc = "idle"
    /\ consumer' = [ ProcessSlicesEnter(consumer, available_read, max_size)
                       EXCEPT !.pub_at_load = published ]
    /\ UNCHANGED <<elements, used, producer, written, readseq, published>>

ReadSlicesLoop ==
    /\ consumer.pc = "loop"
    /\ consumer' = ProcessSlicesLoop(consumer)
    /\ UNCHANGED <<elements, used, producer, written, readseq, published>>

\* One invocation of the caller's read body on the offered run.
ReadSlicesBody(done) ==
    /\ consumer.pc = "body"
    /\ done \in BodyReturns(consumer)
    /\ readseq' = readseq \o ReadRun(elements, consumer.part_start, done)
    /\ consumer' = ProcessSlicesAfterBody(consumer, done)
    /\ UNCHANGED <<elements, used, producer, written, published>>

\* update_used: atomic.fetch_sub(processed, Release); then return.
ReadSlicesUpdate ==
    /\ consumer.pc = "update"
    /\ used' = fetch_sub(used, consumer.total_processed)
    /\ consumer' = ProcessSlicesReturn(consumer)
    /\ UNCHANGED <<elements, producer, written, readseq, published>>

\* read_element: the availability check.
ReadElementCheck ==
    /\ consumer.pc = "idle"
    /\ consumer' =
         IF available_read = 0
         THEN [ consumer EXCEPT !.last = "element", !.ret = None ]
         ELSE [ consumer EXCEPT !.pc = "elem_access", !.pub_at_load = published ]
    /\ UNCHANGED <<elements, used, producer, written, readseq, published>>

\* read_element: copy the element out and advance the cursor.
ReadElementLoad ==
    /\ consumer.pc = "elem_access"
    /\ readseq' = Append(readseq, elements[consumer.index])
    /\ consumer' = [ consumer EXCEPT !.pc = "elem_update",
                                     !.value = elements[consumer.index],
                                     !.index = wraparound_index(consumer.index, 1) ]
    /\ UNCHANGED <<elements, used, producer, written, published>>

\* read_element: used.fetch_sub(1, Release); return Some(value).
ReadElementSub ==
    /\ consumer.pc = "elem_update"
    /\ used' = fetch_sub(used, 1)
    /\ consumer' = [ consumer EXCEPT !.pc = "idle", !.last = "element",
                                     !.ret = Some(consumer.value), !.value = Uninit,
                                     !.pub_at_load = 0 ]
    /\ UNCHANGED <<elements, producer, written, readseq, published>>

\* --------------------------------------------------------------------- Next
Next ==
    \/ ProducerAvailable
    \/ \E max_size \in MaxSizeArgs : WriteSlices(max_size)
    \/ WriteSlicesLoop
    \/ \E done \in 0..MaxSize + 1, scribble \in BOOLEAN : WriteSlicesBody(done, scribble)
    \/ WriteSlicesUpdate
    \/ WriteElementCheck
    \/ WriteElementStore
    \/ WriteElementAdd
    \/ ConsumerAvailable
    \/ \E max_size \in MaxSizeArgs : ReadSlices(max_size)
    \/ ReadSlicesLoop
    \/ \E done \in 0..MaxSize + 1 : ReadSlicesBody(done)
    \/ ReadSlicesUpdate
    \/ ReadElementCheck
    \/ ReadElementLoad
    \/ ReadElementSub

Spec == Init /\ [][Next]_vars

\* ------------------------------------------------------------ shared notions
\* The slots a handle may touch right now: the run offered to its body, or the
\* slot of its single-element access.
Slots(h) ==
    IF h.pc = "body" THEN h.part_start..(h.part_start + h.part_len - 1)
    ELSE IF h.pc = "elem_access" THEN {h.index}
    ELSE {}

ProducerSlots == Slots(producer)
ConsumerSlots == Slots(consumer)

InCall(h) == h.pc \in {"loop", "body", "update"}

\* ------------------------------------------------------------------- claims

\* C1: in every reachable state of every interleaving of producer and consumer
\* operations with honest bodies, 0 <= used <= N; an underflow of the usize
\* counter would show as a value above N.
C1_UsedInRange == 0 <= used /\ used <= elements_len

\* C1 witness: a full buffer of at least two slots while the consumer sits
\* between its load of used and its fetch_sub, having read something, and the
\* producer sits between its load and its fetch_add.
C1_Witness ==
    /\ elements_len >= 2
    /\ used = elements_len
    /\ consumer.pc = "update" /\ consumer.total_processed > 0
    /\ producer.pc \in {"loop", "update", "elem_access"}

\* C2: at every observation point the value Producer::available() would return
\* plus the value Consumer::available() would return equals the capacity.
C2_AvailableSum == available_write + available_read = elements_len

\* C2 witness: both handles have just observed their availability on a partly
\* filled buffer, and the two observed values add up to the capacity.
C2_Witness ==
    /\ 0 < used /\ used < elements_len
    /\ producer.pc = "idle" /\ producer.last = "available"
    /\ consumer.pc = "idle" /\ consumer.last = "available"
    /\ producer.ret = available_write /\ consumer.ret = available_read
    /\ producer.ret + consumer.ret = elements_len

\* C3: the values delivered to the consumer so far are exactly a prefix of the
\* values the producer has written, in the same order (no skip, no repeat).
C3_Fifo ==
    /\ Len(readseq) <= Len(written)
    /\ \A i \in 1..Len(readseq) : readseq[i] = written[i]

\* C3 witness: more values than the buffer has slots were delivered, so both
\* cursors have wrapped, and the consumer is in the middle of a batch call whose
\* first run ended at the physical end of the storage.
C3_Witness ==
    /\ elements_len >= 2
    /\ Len(readseq) > elements_len
    /\ consumer.pc = "loop" /\ consumer.calls = 1
    /\ consumer.index < consumer.start_index

\* C4: the slots the producer may write and the slots the consumer may read
\* are disjoint in every state, also while both operations are in progress.
C4_Disjoint == ProducerSlots \cap ConsumerSlots = {}

\* C4 witness: both bodies hold a run at the same time.
C4_Witness ==
    /\ producer.pc = "body" /\ consumer.pc = "body"
    /\ ProducerSlots # {} /\ ConsumerSlots # {}
    /\ producer.part_len + consumer.part_len = elements_len

\* C5: every slot offered to the consumer was written, by a producer operation
\* whose fetch_add had completed before the consumer loaded used (the value of
\* a slot is the ordinal of the write that stored it).
C5_OnlyPublished ==
    \A i \in ConsumerSlots :
        /\ elements[i] # Uninit
        /\ elements[i] <= consumer.pub_at_load

\* C5 witness: the consumer holds a run while the producer has stored values
\* that its call has not published yet.
C5_Witness ==
    /\ ConsumerSlots # {}
    /\ producer.pc \in {"loop", "update", "elem_update"}
    /\ Len(written) > published

\* C6: a batch call that can transfer nothing (loaded availability 0, or
\* max_size = Some(0)) never invokes the body, returns 0, and none of its steps
\* changes the handle's cursor, used or a storage slot.
NoTransfer(h) == InCall(h) /\ (h.available = 0 \/ h.req = Some(0))

C6_Step(h, hn) ==
    /\ NoTransfer(h) =>
         h.pc # "body" /\ h.calls = 0 /\ h.index = h.start_index
    /\ (NoTransfer(h) /\ hn # h) =>
         /\ hn.pc \in {"update", "idle"}
         /\ hn.calls = 0
         /\ hn.index = h.index
         /\ used' = used
         /\ elements' = elements
         /\ hn.pc = "idle" => (hn.last = "slices" /\ hn.ret = 0)
    /\ (~InCall(h) /\ InCall(hn) /\ NoTransfer(hn)) =>
         hn.index = h.index /\ used' = used /\ elements' = elements

C6_NoOp == [][C6_Step(producer, producer') /\ C6_Step(consumer, consumer')]_vars

\* C6 witness: a write_slices on a full buffer and a read_slices with
\* max_size = Some(0) on a non-empty buffer, both about to return.
C6_Witness ==
    /\ elements_len >= 2
    /\ producer.pc = "update" /\ producer.available = 0
    /\ consumer.pc = "update" /\ consumer.req = Some(0) /\ consumer.available > 0

\* C7: write_element succeeds exactly when used < N at its check; on success
\* it stores the value at the producer cursor, advances the cursor by one
\* modulo N and increments used by exactly 1; on failure nothing changes.  With
\* nothing consumed yet, it succeeds exactly while fewer than N values were
\* written.
C7_WriteElement ==
    [][ /\ WriteElementCheck =>
             /\ (producer'.pc = "elem_access") <=> (used < elements_len)
             /\ (readseq = <<>> /\ consumer.pc = "idle") =>
                  ((producer'.pc = "elem_access") <=> (Len(written) < elements_len))
             /\ producer'.pc # "elem_access" =>
                  /\ producer'.pc = "idle" /\ producer'.ret = FALSE
                  /\ producer'.index = producer.index
             /\ used' = used /\ elements' = elements
        /\ WriteElementStore =>
             /\ elements' = [ elements EXCEPT ![producer.index] = producer.value ]
             /\ producer'.index = (producer.index + 1) % elements_len
             /\ used' = used
        /\ WriteElementAdd =>
             /\ used' = used + 1
             /\ producer'.ret = TRUE /\ producer'.pc = "idle"
             /\ producer'.index = producer.index /\ elements' = elements
      ]_vars

\* C7 witness: with nothing consumed, N values were stored one after the other
\* and the following write_element returned false.
C7_Witness ==
    /\ elements_len >= 2
    /\ readseq = <<>> /\ consumer.pc = "idle" /\ consumer.last = "none"
    /\ used = elements_len /\ Len(written) = elements_len
    /\ \A i \in DOMAIN elements : elements[i] = i + 1
    /\ producer.pc = "idle" /\ producer.last = "element" /\ producer.ret = FALSE

\* C8: read_element returns Some(x) exactly when used > 0 at its check, x being
\* the slot at the consumer cursor, which is the oldest written value not yet
\* consumed; it then advances the cursor by one modulo N and decrements used by
\* exactly 1; when used = 0 it returns None and changes nothing.
C8_ReadElement ==
    [][ /\ ReadElementCheck =>
             /\ (consumer'.pc = "elem_access") <=> (used > 0)
             /\ consumer'.pc # "elem_access" =>
                  /\ consumer'.pc = "idle" /\ consumer'.ret = None
                  /\ consumer'.index = consumer.index
             /\ used' = used /\ elements' = elements
        /\ ReadElementLoad =>
             /\ consumer'.value = elements[consumer.index]
             /\ consumer'.value = written[Len(readseq) + 1]
             /\ consumer'.index = (consumer.index + 1) % elements_len
             /\ used' = used /\ elements' = elements
        /\ ReadElementSub =>
             /\ used' = used - 1
             /\ consumer'.ret = Some(consumer.value) /\ consumer'.pc = "idle"
             /\ consumer'.index = consumer.index /\ elements' = elements
      ]_vars

\* C8 witness: read_element has returned a value stored after the cursor
\* wrapped, and the buffer is empty again.
C8_Witness ==
    /\ elements_len >= 2
    /\ consumer.pc = "idle" /\ consumer.last = "element"
    /\ consumer.ret = Some(elements_len + 1)
    /\ used = 0

\* C9: a body invocation that returns less than the offered length ends the
\* loop: the next step of the call is the update of used, and the call returns
\* the cumulative count including the short invocation.
C9_Step(h, hn) ==
    /\ (h.pc = "body" /\ hn # h /\ hn.processed < h.part_len) =>
         /\ hn.pc = "update"
         /\ hn.calls = h.calls + 1
         /\ hn.total_processed = h.total_processed + hn.processed
    /\ (h.pc = "update" /\ hn # h) =>
         /\ hn.pc = "idle" /\ hn.last = "slices"
         /\ hn.ret = h.total_processed

C9_EarlyInterruption ==
    [][C9_Step(producer, producer') /\ C9_Step(consumer, consumer')]_vars

\* C9 witness: a read body returned short although more data was within the
\* limit; the call is about to return.
C9_Witness ==
    /\ consumer.pc = "update"
    /\ consumer.calls >= 1
    /\ consumer.processed < consumer.part_len
    /\ consumer.total_processed + 1 < consumer.max_size

\* C10: a batch call returning r has advanced the handle's cursor by exactly r
\* modulo N and changes used by exactly r; the next call starts at the first
\* unprocessed slot with offset 0, so the data continues in FIFO order.
C10_State(h, done_so_far) ==
    /\ (InCall(h) /\ elements_len > 0) =>
         h.index = (h.start_index + h.total_processed) % elements_len
    /\ elements_len > 0 => h.index = done_so_far % elements_len
    /\ (h.pc = "body" /\ h.calls = 0) =>
         h.total_processed = 0 /\ h.part_start = h.index

C10_PartialCommit ==
    [][ /\ C10_State(producer, Len(written))
        /\ C10_State(consumer, Len(readseq))
        /\ consumer.pc = "body" =>
             \A j \in 0..(consumer.part_len - 1) :
                 elements[consumer.part_start + j] = written[Len(readseq) + j + 1]
        /\ WriteSlicesUpdate =>
             /\ producer'.ret = producer.total_processed
             /\ used' = used + producer'.ret
             /\ elements_len > 0 =>
                  producer'.index = (producer.start_index + producer'.ret) % elements_len
        /\ ReadSlicesUpdate =>
             /\ consumer'.ret = consumer.total_processed
             /\ used' = used - consumer'.ret
             /\ elements_len > 0 =>
                  consumer'.index = (consumer.start_index + consumer'.ret) % elements_len
      ]_vars

\* C10 witness: a write call whose first run was filled and whose second run
\* was cut short is about to commit what it processed.
C10_Witness ==
    /\ producer.pc = "update"
    /\ producer.calls = 2
    /\ 1 <= producer.processed /\ producer.processed < producer.part_len

\* C11: in a single write_slices or read_slices call the body is invoked 0, 1
\* or 2 times, never more; a second invocation happens only when the first run
\* ended at the physical end of the storage and was processed in full.
C11_Calls(h) ==
    /\ InCall(h) => h.calls <= 2
    /\ h.pc = "body" => h.calls <= 1
    /\ (h.pc = "body" /\ h.calls = 1) =>
         /\ h.start_index + h.processed = elements_len
         /\ h.processed = min(elements_len - h.start_index, h.max_size)
         /\ h.total_processed = h.processed
         /\ h.part_start = 0

C11_AtMostTwoRuns == C11_Calls(producer) /\ C11_Calls(consumer)

\* C11 witness: a read call has invoked its body twice, the first run having
\* ended at the end of the storage.
C11_Witness ==
    /\ consumer.pc = "update" /\ consumer.calls = 2
    /\ consumer.start_index > 0
    /\ consumer.total_processed = consumer.max_size

\* C12: a batch call may transfer limit = min(max_size, available) elements,
\* max_size = None meaning available, with available the value loaded at the
\* start of the call: it never returns more than limit, no slice offered exceeds
\* what is left of it, and it returns exactly limit when every body invocation
\* processed its whole slice.
Limit(h) == IF h.req = None THEN h.available
            ELSE IF h.req[1] < h.available THEN h.req[1] ELSE h.available

C12_Step(h, hn) ==
    /\ InCall(h) =>
         /\ h.max_size = Limit(h)
         /\ h.total_processed <= Limit(h)
    /\ h.pc = "body" =>
         /\ h.part_len <= h.available
         /\ h.total_processed + h.part_len <= Limit(h)
    /\ (h.pc = "update" /\ hn # h) =>
         /\ hn.ret <= Limit(h)
         /\ (h.calls = 0 \/ h.processed = h.part_len) => hn.ret = Limit(h)

C12_Limit == [][C12_Step(producer, producer') /\ C12_Step(consumer, consumer')]_vars

\* C12 witness: a read call asked for more than was available, was offered no
\* more than the available elements, took them all and is about to return.
C12_Witness ==
    /\ consumer.pc = "update"
    /\ consumer.req # None /\ consumer.req[1] > consumer.available
    /\ consumer.available >= 2
    /\ consumer.total_processed = consumer.available

\* The case of C13: exactly N values were written since construction, k of
\* them (0 < k < N) were read and released, and the producer is in a write
\* call limited to those k free slots.
C13_Case ==
    /\ InCall(producer)
    /\ elements_len >= 2
    /\ Len(written) - producer.total_processed = elements_len
    /\ 0 < producer.available /\ producer.available < elements_len
    /\ producer.max_size = producer.available
    /\ Len(readseq) >= producer.available

\* C13 as stated: the write of k more elements is split into two runs, tail
\* then head, delivered with offsets 0 and N - k.
C13_Original ==
    (C13_Case /\ producer.pc = "update"
       /\ producer.total_processed = producer.max_size) =>
        /\ producer.calls = 2
        /\ producer.total_processed - producer.processed
             = elements_len - producer.available

\* C13 amended: after N writes the producer cursor is back at slot 0, so the
\* write of k more elements is delivered in one run, the slots 0..k-1, with
\* offset 0; whenever a call does offer a second run, its offset is N minus
\* the cursor at which the call started.
C13_SingleRun ==
    /\ C13_Case =>
         /\ producer.start_index = 0
         /\ producer.calls <= 1
         /\ producer.pc = "body" =>
              /\ producer.part_start = 0
              /\ producer.part_len = producer.available
              /\ producer.total_processed = 0
         /\ (producer.pc = "update" /\ producer.total_processed = producer.max_size) =>
              producer.calls = 1
    /\ (producer.pc = "body" /\ producer.calls = 1) =>
         producer.total_processed = elements_len - producer.start_index

\* C13 witness: in that case the k elements were written by a single body
\* invocation and the call is about to return.
C13_Witness ==
    /\ C13_Case
    /\ producer.pc = "update"
    /\ producer.calls = 1
    /\ producer.total_processed = producer.max_size

\* C14: a buffer of capacity 0 reports availability 0 on both sides in every
\* reachable state, write_element returns false, read_element returns None,
\* the batch calls return 0 without invoking the body, and no operation
\* reaches an access to a slot.
C14_Handle(h) ==
    /\ h.index = 0
    /\ h.pc \in {"idle", "loop", "update"}
    /\ h.calls = 0 /\ h.total_processed = 0 /\ h.max_size = 0
    /\ h.last \in {"slices", "available"} => h.ret = 0

C14_ZeroCapacity ==
    elements_len = 0 =>
        /\ available_write = 0 /\ available_read = 0
        /\ used = 0 /\ written = <<>> /\ readseq = <<>>
        /\ C14_Handle(producer) /\ C14_Handle(consumer)
        /\ producer.last = "element" => producer.ret = FALSE
        /\ consumer.last = "element" => consumer.ret = None

\* C14 witness: on a capacity-0 buffer write_element has returned false and a
\* read_slices asking for elements is about to return 0.
C14_Witness ==
    /\ elements_len = 0
    /\ producer.pc = "idle" /\ producer.last = "element" /\ producer.ret = FALSE
    /\ consumer.pc = "update" /\ consumer.req = Some(2)
    /\ consumer.last = "element" /\ consumer.ret = None

\* C15: right after create_ring_buffer(N) used is 0, both cursors are 0,
\* Producer::available() is N and Consumer::available() is 0, and a read
\* performed before any write returns 0 / None.
JustCreated ==
    /\ producer.pc = "idle" /\ producer.last = "none"
    /\ consumer.pc = "idle" /\ consumer.last = "none"

C15_Fresh ==
    /\ JustCreated =>
         /\ used = 0
         /\ producer.index = 0 /\ consumer.index = 0
         /\ available_write = elements_len
         /\ available_read = 0
         /\ \A i \in DOMAIN elements : elements[i] = Uninit
    /\ written = <<>> =>
         /\ consumer.index = 0
         /\ consumer.pc \in {"idle", "loop", "update"}
         /\ consumer.calls = 0 /\ consumer.total_processed = 0
         /\ consumer.last \in {"slices", "available"} => consumer.ret = 0
         /\ consumer.last = "element" => consumer.ret = None
         /\ (producer.last = "available" /\ producer.pc = "idle") =>
              producer.ret = elements_len

\* C15 witness: before any write, on a buffer with slots, the producer
\* observed N free slots and a read_element returned None.
C15_Witness ==
    /\ elements_len >= 2
    /\ written = <<>>
    /\ producer.pc = "idle" /\ producer.last = "available"
    /\ producer.ret = elements_len
    /\ consumer.pc = "idle" /\ consumer.last = "element" /\ consumer.ret = None

\* The steps by which a started producer / consumer operation continues.
ProducerContinue ==
    \/ WriteSlicesLoop
    \/ \E done \in 0..MaxSize + 1, scribble \in BOOLEAN : WriteSlicesBody(done, scribble)
    \/ WriteSlicesUpdate
    \/ WriteElementStore
    \/ WriteElementAdd

ConsumerContinue ==
    \/ ReadSlicesLoop
    \/ \E done \in 0..MaxSize + 1 : ReadSlicesBody(done)
    \/ ReadSlicesUpdate
    \/ ReadElementLoad
    \/ ReadElementSub

\* How far a started operation has come: every own step raises it, and it
\* is LastStep + 1 once the operation has returned.  A batch call takes at
\* most three loop tests, two body invocations and one update.
LastStep == 3 + 2 + 1

Progress(h) ==
    CASE h.pc = "loop" -> 2 * h.calls + 1
      [] h.pc = "body" -> 2 * h.calls + 2
      [] h.pc = "update" -> LastStep
      [] h.pc = "elem_access" -> LastStep - 1
      [] h.pc = "elem_update" -> LastStep
      [] OTHER -> LastStep + 1

\* C16: every operation is non-blocking: while it is in progress its next own
\* step is enabled whatever state the other handle is in, each own step brings
\* it strictly closer to its return, and it returns after at most two body
\* invocations and one update of used.
C16_NonBlocking ==
    [][ /\ producer.pc # "idle" => ENABLED ProducerContinue
        /\ consumer.pc # "idle" => ENABLED ConsumerContinue
        /\ Progress(producer) <= LastStep + 1 /\ Progress(consumer) <= LastStep + 1
        /\ (producer.pc # "idle" /\ producer' # producer) =>
             /\ Progress(producer') > Progress(producer)
             /\ UNCHANGED consumer
        /\ (consumer.pc # "idle" /\ consumer' # consumer) =>
             /\ Progress(consumer') > Progress(consumer)
             /\ UNCHANGED producer
        /\ (producer.pc = "idle" /\ producer' # producer) =>
             (producer'.pc = "idle" \/ Progress(producer') = 1
                \/ producer'.pc = "elem_access")
        /\ (consumer.pc = "idle" /\ consumer' # consumer) =>
             (consumer'.pc = "idle" \/ Progress(consumer') = 1
                \/ consumer'.pc = "elem_access")
      ]_vars

\* C16 witness: the buffer is full, the consumer has stopped in the middle of
\* a read, and a write_slices of the producer has nevertheless run to its last
\* step (it will return 0).
C16_Witness ==
    /\ elements_len >= 2
    /\ used = elements_len
    /\ consumer.pc = "body"
    /\ producer.pc = "update" /\ producer.available = 0

\* ------------------------------------------------- the polling protocol
\* The two threads of tests.rs test_concurrent_element_read_write and
\* test_concurrent_slices_read_write: the producer retries write_element or
\* write_slices(Some(unit)) until TestCount values are written, the consumer
\* retries read_element or read_slices(Some(unit)) until TestCount values are
\* read; unit is at least 1 and at most what is still missing, and a body
\* processes the whole slice it is offered.
TestCount == MaxWrites

LiveInit == Init /\ elements_len >= 1

LiveWriteSlices ==
    \E unit \in 1..MaxRequest :
        /\ unit <= TestCount - Len(written)
        /\ WriteSlices(Some(unit))

LiveWriteBody == WriteSlicesBody(producer.part_len, FALSE)

LiveReadSlices ==
    \E unit \in 1..MaxRequest :
        /\ unit <= TestCount - Len(readseq)
        /\ ReadSlices(Some(unit))

LiveReadElement == Len(readseq) < TestCount /\ ReadElementCheck

LiveReadBody == ReadSlicesBody(consumer.part_len)

ProducerThread ==
    \/ LiveWriteSlices
    \/ WriteSlicesLoop
    \/ LiveWriteBody
    \/ WriteSlicesUpdate
    \/ WriteElementCheck
    \/ WriteElementStore
    \/ WriteElementAdd

ConsumerThread ==
    \/ LiveReadSlices
    \/ ReadSlicesLoop
    \/ LiveReadBody
    \/ ReadSlicesUpdate
    \/ LiveReadElement
    \/ ReadElementLoad
    \/ ReadElementSub

LiveNext == ProducerThread \/ ConsumerThread

\* Both threads are scheduled again and again.
SpecLive ==
    /\ LiveInit
    /\ [][LiveNext]_vars
    /\ WF_vars(ProducerThread)
    /\ WF_vars(ConsumerThread)

AllTransferred ==
    /\ Len(readseq) = TestCount
    /\ readseq = written
    /\ producer.pc = "idle" /\ consumer.pc = "idle"
    /\ available_read = 0
    /\ available_write = elements_len

\* C17: under fair scheduling of both threads and capacity N >= 1 the polling
\* protocol ends: eventually all values have been read, and from then on
\* Consumer::available() is 0 and Producer::available() is N.
C17_Liveness == <>[]AllTransferred

\* C17 witness: all values went through a buffer smaller than their number.
C17_Witness ==
    /\ AllTransferred
    /\ elements_len >= 2 /\ elements_len < TestCount

\* ------------------------------------------------- a body that overstates
\* Caller misuse: a body touches the whole slice it was offered (it cannot
\* reach further through the slice) and returns more than its length.  One
\* such return is modelled, among batch calls whose other bodies are honest
\* and write only what they report; afterwards the calls in progress finish
\* and no new call starts.
OverReturns(h) == (h.part_len + 1)..(h.part_len + MaxOver)

NoMisuse == ~producer.over /\ ~consumer.over

OverWriteBody(done) ==
    /\ producer.pc = "body"
    /\ NoMisuse
    /\ done \in OverReturns(producer)
    /\ elements' = WriteRun(elements, producer.part_start, producer.part_len,
                            producer.part_len, NextValue, FALSE)
    /\ written' = written \o [ j \in 1..producer.part_len |-> NextValue + (j - 1) ]
    /\ producer' = [ ProcessSlicesAfterBody(producer, done) EXCEPT !.over = TRUE ]
    /\ UNCHANGED <<used, consumer, readseq, published>>

OverReadBody(done) ==
    /\ consumer.pc = "body"
    /\ NoMisuse
    /\ done \in OverReturns(consumer)
    /\ readseq' = readseq \o ReadRun(elements, consumer.part_start, consumer.part_len)
    /\ consumer' = [ ProcessSlicesAfterBody(consumer, done) EXCEPT !.over = TRUE ]
    /\ UNCHANGED <<elements, used, producer, written, published>>

OverNext ==
    \/ NoMisuse /\ \E max_size \in MaxSizeArgs : WriteSlices(max_size)
    \/ NoMisuse /\ \E max_size \in MaxSizeArgs : ReadSlices(max_size)
    \/ WriteSlicesLoop
    \/ \E done \in 0..MaxSize : WriteSlicesBody(done, FALSE)
    \/ WriteSlicesUpdate
    \/ ReadSlicesLoop
    \/ \E done \in 0..MaxSize : ReadSlicesBody(done)
    \/ ReadSlicesUpdate
    \/ \E done \in 1..(MaxSize + MaxOver) : OverWriteBody(done)
    \/ \E done \in 1..(MaxSize + MaxOver) : OverReadBody(done)

SpecOver == Init /\ [][OverNext]_vars

\* C19: a body return value larger than the offered slice is neither rejected
\* nor clamped: the call goes on, the raw value is added to the total, the
\* cursor is advanced with it, and used is changed by the unclamped total.
C19_AfterOver(h, hn, done) ==
    /\ hn.pc = "loop"
    /\ hn.processed = done
    /\ hn.total_processed = h.total_processed + done
    /\ hn.index = IF h.index + done >= elements_len THEN 0 ELSE h.index + done

C19_Unchecked ==
    [][ /\ \A done \in 1..(MaxSize + MaxOver) :
             /\ OverWriteBody(done) => C19_AfterOver(producer, producer', done)
             /\ OverReadBody(done) => C19_AfterOver(consumer, consumer', done)
        /\ WriteSlicesUpdate =>
             /\ used' = (used + producer.total_processed) % USIZE
             /\ producer'.ret = producer.total_processed
        /\ ReadSlicesUpdate =>
             /\ used' = (used - consumer.total_processed) % USIZE
             /\ consumer'.ret = consumer.total_processed
      ]_vars

\* C19 witness: a write call whose body overstated its count has returned
\* more than its limit allowed and left used above the capacity.
C19_Witness ==
    /\ producer.over /\ producer.pc = "idle" /\ consumer.pc = "idle"
    /\ producer.last = "slices"
    /\ used > elements_len
    /\ ~C1_UsedInRange


\* C20: in every write_slices / read_slices call used is updated exactly once,
\* as the last step of the call and after the final body invocation, by the
\* value the call returns; the steps before it (load, loop tests, body
\* invocations) leave used alone, so between the two runs of a call the peer
\* sees nothing of the first run.
Pending(h) ==
    IF InCall(h) THEN h.total_processed
    ELSE IF h.pc = "elem_update" THEN 1
    ELSE 0

C20_Step(h, hn, delta) ==
    hn # h =>
      /\ h.pc = "update" =>
           /\ used' = (used + delta) % USIZE
           /\ hn.pc = "idle" /\ hn.last = "slices"
           /\ hn.ret = h.total_processed
      /\ (h.pc \in {"loop", "body"} \/ hn.pc = "loop") =>
           /\ used' = used
           /\ published' = published
      /\ hn.pc = "update" => h.pc \in {"loop", "body"}
      /\ h.pc = "body" => hn.pc \in {"loop", "update"}

C20_SingleUpdate ==
    [][ /\ used = (Len(written) - Pending(producer))
                  - (Len(readseq) - Pending(consumer))
        /\ published = Len(written) - Pending(producer)
        /\ C20_Step(producer, producer', producer.total_processed)
        /\ C20_Step(consumer, consumer', 0 - consumer.total_processed)
      ]_vars

\* C20 witness: a write call stands between its two runs, the first run
\* processed and more to come, and nothing of it has been published.
C20_Witness ==
    /\ producer.pc = "body"
    /\ producer.calls = 1
    /\ producer.total_processed > 0
    /\ published = Len(written) - producer.total_processed
    /\ used = published - Len(readseq)
    /\ consumer.pc = "idle"


\* C21: run decomposition.  A batch call that starts with cursor c and limit
\* L > 0 on capacity N and whose body processes every slice in full invokes
\* the body once with the slots [c, c+L) and offset 0 if c + L <= N; otherwise
\* twice, first with [c, N) and offset 0, then with [0, L-(N-c)) and offset
\* N-c.  The offset of an invocation (total_processed when the body is
\* entered) is the number of elements the call has processed so far.
C21_Runs(h) ==
    /\ (h.pc = "body" /\ h.calls = 0) =>
         /\ h.part_start = h.start_index
         /\ h.total_processed = 0
         /\ h.part_len = IF h.start_index + h.max_size <= elements_len
                         THEN h.max_size
                         ELSE elements_len - h.start_index
    /\ (h.pc = "body" /\ h.calls = 1) =>
         /\ h.start_index + h.max_size > elements_len
         /\ h.part_start = 0
         /\ h.part_len = h.max_size - (elements_len - h.start_index)
         /\ h.total_processed = elements_len - h.start_index
    /\ (h.pc = "update" /\ h.max_size > 0 /\ h.processed = h.part_len) =>
         /\ h.total_processed = h.max_size
         /\ h.calls = IF h.start_index + h.max_size <= elements_len THEN 1 ELSE 2
    /\ (InCall(h) /\ h.max_size > 0) => h.calls \in 0..2

C21_RunDecomposition == C21_Runs(producer) /\ C21_Runs(consumer)

\* C21 witness: a write call that began at the last slot of a three-slot
\* buffer with limit 2 is in its second invocation, offered slot 0 with
\* offset 1.
C21_Witness ==
    /\ elements_len = 3
    /\ producer.pc = "body" /\ producer.calls = 1
    /\ producer.start_index = 2 /\ producer.max_size = 2
    /\ producer.part_start = 0 /\ producer.part_len = 1
    /\ producer.total_processed = 1


\* C22: after each body invocation that returns done with 0 <= done <= run,
\* process_slices adds done to the processed total and sets the cursor to
\* (cursor + done) mod N; wraparound_index agrees with the modulo formula for
\* every such done; read_element / write_element advance the cursor to
\* (cursor + 1) mod N.
C22_Step(h, hn) ==
    /\ h.pc = "body" =>
         \A done \in 0..h.part_len :
             wraparound_index(h.index, done) = (h.index + done) % elements_len
    /\ h.pc = "elem_access" =>
         wraparound_index(h.index, 1) = (h.index + 1) % elements_len
    /\ (h.pc = "body" /\ hn # h) =>
         /\ hn.processed \in 0..h.part_len
         /\ hn.total_processed = h.total_processed + hn.processed
         /\ hn.index = (h.index + hn.processed) % elements_len
    /\ (h.pc = "elem_access" /\ hn # h) =>
         hn.index = (h.index + 1) % elements_len

C22_CursorAdvance ==
    [][C22_Step(producer, producer') /\ C22_Step(consumer, consumer')]_vars

\* C22 witness: after a successful write_element, a read body took the run
\* that ended at the physical end of the storage and the cursor, which stood
\* past slot 0, is back at slot 0.
C22_Witness ==
    /\ InCall(consumer)
    /\ consumer.calls = 1
    /\ consumer.start_index > 0
    /\ consumer.processed > 0
    /\ consumer.index = 0
    /\ producer.last = "element" /\ producer.ret = TRUE


\* C23: every slice offered to a body lies inside the storage and is not
\* empty: its start s and length len satisfy 0 <= s < N, len >= 1 and
\* s + len <= N, so no offered slice crosses the physical end of the storage.
C23_Slice(h) ==
    h.pc = "body" =>
      /\ 0 <= h.part_start /\ h.part_start < elements_len
      /\ h.part_len >= 1
      /\ h.part_start + h.part_len <= elements_len
      /\ Slots(h) \subseteq DOMAIN elements

C23_SliceInside == C23_Slice(producer) /\ C23_Slice(consumer)

\* C23 witness: a read body is offered a run that was cut at the physical end
\* of the storage although the call's limit asks for more.
C23_Witness ==
    /\ consumer.pc = "body"
    /\ consumer.part_start > 0
    /\ consumer.part_start + consumer.part_len = elements_len
    /\ consumer.max_size - consumer.total_processed > consumer.part_len


\* ---------------------------------------- whole calls, run without the peer
\* write_element(v) run from the current state to its return:
\* <<storage, producer cursor, used, success>>.
WriteElementWhole(v) ==
    IF available_write = 0
    THEN <<elements, producer.index, used, FALSE>>
    ELSE <<[ elements EXCEPT ![producer.index] = v ],
           wraparound_index(producer.index, 1),
           fetch_add(used, 1),
           TRUE>>

\* process_slices on handle h run to the value it passes to update_used, with
\* a body that processes one element per offered slice: the handle just
\* before update_used.
ProcessSlicesOne(h, available, max_size) ==
    LET entered == ProcessSlicesLoop(ProcessSlicesEnter(h, available, max_size))
    IN  IF entered.pc = "body"
        THEN ProcessSlicesLoop(ProcessSlicesAfterBody(entered, 1))
        ELSE entered

\* write_slices(|buf, _| { buf[0] = v; 1 }, Some(1)) run from the current
\* state to its return; it succeeded if it returned 1.
WriteSlicesOne(v) ==
    LET first == ProcessSlicesLoop(
                     ProcessSlicesEnter(producer, available_write, Some(1)))
        h == ProcessSlicesOne(producer, available_write, Some(1))
    IN  <<IF first.pc = "body"
          THEN WriteRun(elements, first.part_start, first.part_len, 1, v, FALSE)
          ELSE elements,
          h.index,
          fetch_add(used, h.total_processed),
          ProcessSlicesReturn(h).ret = 1>>

\* read_element() run from the current state to its return:
\* <<value, consumer cursor, used>>.
ReadElementWhole ==
    IF available_read = 0
    THEN <<None, consumer.index, used>>
    ELSE <<Some(elements[consumer.index]),
           wraparound_index(consumer.index, 1),
           fetch_sub(used, 1)>>

\* read_slices(|buf, _| { take buf[0]; 1 }, Some(1)) run from the current
\* state to its return.
ReadSlicesOne ==
    LET first == ProcessSlicesLoop(
                     ProcessSlicesEnter(consumer, available_read, Some(1)))
        h == ProcessSlicesOne(consumer, available_read, Some(1))
    IN  <<IF first.pc = "body"
          THEN Some(ReadRun(elements, first.part_start, 1)[1])
          ELSE None,
          h.index,
          fetch_sub(used, h.total_processed)>>

\* C24: the single-element fast paths are equivalent to one-element batch
\* calls.  From any reachable state in which the handle is between calls,
\* write_element(v) gives the same storage, producer cursor, used and
\* success / failure as write_slices with max_size = Some(1) and a body that
\* stores v and returns 1; read_element() gives the same value, consumer
\* cursor and used as read_slices with max_size = Some(1) and a body that
\* takes the one element.
C24_ElementAsSlice ==
    /\ producer.pc = "idle" => WriteElementWhole(NextValue) = WriteSlicesOne(NextValue)
    /\ consumer.pc = "idle" => ReadElementWhole = ReadSlicesOne

\* C24 witness: element and slice operations were mixed (the producer's last
\* call was a successful write_element that wrapped its cursor, the
\* consumer's last call a read_slices that returned something), both handles
\* are between calls, and the buffer is neither empty nor full, so that both
\* paths of both sides take their transferring branch.
C24_Witness ==
    /\ producer.pc = "idle" /\ consumer.pc = "idle"
    /\ producer.last = "element" /\ producer.ret = TRUE
    /\ producer.index = 0
    /\ consumer.last = "slices" /\ consumer.ret >= 1
    /\ 0 < used /\ used < elements_len
    /\ WriteElementWhole(NextValue)[4]
    /\ ReadSlicesOne[1] # None


\* C25: cursor / counter consistency.  For N >= 1, whenever neither handle
\* has an operation in progress, both cursors are in [0, N) and
\* producer cursor = (consumer cursor + used) mod N: the occupied region is
\* the used slots from the consumer cursor on (they hold the unread values in
\* order) and the free region is the N - used slots from the producer cursor
\* on.
OccupiedRegion ==
    { (consumer.index + j) % elements_len : j \in 0..(used - 1) }

FreeRegion ==
    { (producer.index + j) % elements_len : j \in 0..(elements_len - used - 1) }

C25_CursorsAndUsed ==
    (elements_len >= 1 /\ producer.pc = "idle" /\ consumer.pc = "idle") =>
      /\ producer.index \in 0..(elements_len - 1)
      /\ consumer.index \in 0..(elements_len - 1)
      /\ producer.index = (consumer.index + used) % elements_len
      /\ \A j \in 0..(used - 1) :
             elements[(consumer.index + j) % elements_len]
               = written[Len(readseq) + j + 1]
      /\ OccupiedRegion \cap FreeRegion = {}
      /\ OccupiedRegion \cup FreeRegion = DOMAIN elements

\* C25 witness: both handles are between calls on a three-slot buffer, the
\* occupied region wraps around the physical end (the consumer cursor is at
\* the last slot, the producer cursor at slot 1).
C25_Witness ==
    /\ elements_len = 3
    /\ producer.pc = "idle" /\ consumer.pc = "idle"
    /\ consumer.index = 2 /\ producer.index = 1 /\ used = 2


\* The free slots as the producer's running operation may count them: the
\* N - used slots from the cursor its operation started at.
WritableRegion ==
    LET c == IF InCall(producer) THEN producer.start_index ELSE producer.index
    IN  { (c + j) % elements_len : j \in 0..(elements_len - used - 1) }

\* C26: frame of each side.  Producer operations never decrease used, never
\* change the consumer's cursor and never write a slot outside the free
\* region; consumer operations never increase used, never change the
\* producer's cursor and never modify a storage slot; available() on either
\* handle changes nothing (its only effect is the value it returns).
C26_AvailableStep(h, hn) ==
    h.pc = "idle" /\ hn.pc = "idle" /\ hn.last = "available" /\ hn # h

C26_Frame ==
    [][ /\ producer' # producer =>
             /\ used' >= used
             /\ consumer' = consumer
             /\ readseq' = readseq
             /\ \A i \in DOMAIN elements :
                    elements'[i] # elements[i] => i \in WritableRegion
        /\ consumer' # consumer =>
             /\ used' <= used
             /\ producer' = producer
             /\ elements' = elements
             /\ written' = written /\ published' = published
        /\ C26_AvailableStep(producer, producer') =>
             /\ UNCHANGED <<elements, used, consumer>>
             /\ producer'.index = producer.index
             /\ producer'.ret = (elements_len - used) % USIZE
        /\ C26_AvailableStep(consumer, consumer') =>
             /\ UNCHANGED <<elements, used, producer>>
             /\ consumer'.index = consumer.index
             /\ consumer'.ret = used
        /\ DOMAIN elements' = DOMAIN elements
      ]_vars

\* C26 witness: on a buffer that holds unread data the producer has filled a
\* run while the consumer, in a call of its own, has taken elements that it
\* has not released yet.
C26_Witness ==
    /\ producer.pc = "update" /\ producer.total_processed > 0
    /\ consumer.pc = "update" /\ consumer.total_processed > 0
    /\ 0 < used /\ used < elements_len
    /\ consumer.total_processed < used


\* C27: a stale availability value is always safe.  The availability a handle
\* loaded at the start of an operation never exceeds the real availability at
\* any later step of that operation, because the peer only moves used in the
\* handle's favour.  In particular, if available() returned a, a following
\* write_slices / read_slices with max_size = None on the same handle whose
\* body processes every slice in full returns at least a.
C27_Stale(h, real) ==
    /\ InCall(h) => h.available <= real
    /\ h.pc \in {"elem_access", "elem_update"} => 1 <= real
    /\ (h.pc = "idle" /\ h.last = "available") => h.ret <= real
    /\ (InCall(h) /\ h.last = "available") => h.ret <= h.available
    /\ (InCall(h) /\ h.req = None) => h.max_size = h.available

C27_Return(h, hn) ==
    (h.pc = "update" /\ hn # h /\ h.last = "available" /\ h.req = None
       /\ h.processed = h.part_len) =>
      /\ hn.last = "slices"
      /\ hn.ret >= h.ret
      /\ hn.ret = h.available

C27_StaleAvailability ==
    [][ /\ C27_Stale(producer, elements_len - used)
        /\ C27_Stale(consumer, used)
        /\ C27_Return(producer, producer')
        /\ C27_Return(consumer, consumer')
      ]_vars

\* C27 witness: the producer asked available(), got a >= 1, started
\* write_slices with max_size = None and filled every slice; meanwhile the
\* consumer released elements, so the value the producer works with is below
\* the real free space when it is about to publish.
C27_Witness ==
    /\ producer.pc = "update"
    /\ producer.last = "available" /\ producer.ret >= 1
    /\ producer.req = None
    /\ producer.processed = producer.part_len
    /\ producer.total_processed = producer.available
    /\ producer.available < elements_len - used

====
